---- MODULE Spec2Model ----
(***************************************************************************)
(* Model of scrapelib-proxy: the request executor (ProxyRequest.submit),   *)
(* the race fetcher (BruteFetch.fetch) and the staged fallback fetcher     *)
(* (SmartFetch.fetch).  One behaviour of Spec is one call of one fetcher:  *)
(* `call` says which.  asyncio tasks are modelled with one action per run  *)
(* of a task between two suspension points, which is the atomicity asyncio *)
(* gives to the code.                                                      *)
(***************************************************************************)
EXTENDS Integers, Sequences, FiniteSets, TLC

\* ------------------------------------------------------------------ bounds
MaxProxies == 2
MaxWorkers == 3
MaxAttempt == 7

\* ------------------------------------------------------------ value model
\* Python values are tagged records so that values of different types can
\* be compared.
None == [kind |-> "none"]
StrV(s) == [kind |-> "str", s |-> s]
IntV(n) == [kind |-> "int", n |-> n]
Url(h) == [kind |-> "url", host |-> h]
Body(tag) == [kind |-> "body", of |-> tag]
Headers(tag) == [kind |-> "headers", of |-> tag]
Dict(items) == [kind |-> "dict", items |-> items]
EmptyDict == Dict(<<>>)

TargetHost == "target.example"
OtherHost == "other.example"

\* A dict holds its <<key, value>> pairs in insertion order.
RECURSIVE ItemsGet(_, _)
ItemsGet(items, key) ==
    IF items = <<>> THEN None
    ELSE IF Head(items)[1] = key THEN Head(items)[2]
    ELSE ItemsGet(Tail(items), key)

\* d[key]
DictGet(d, key) == ItemsGet(d.items, key)

\* Iterating a dict yields its keys, in insertion order.
DictIter(d) == [i \in 1..Len(d.items) |-> StrV(d.items[i][1])]

\* Python truthiness of what submit returns: None and {} are falsy.
Truthy(v) == v # None /\ v # EmptyDict

\* ---------------------------------------------------------- proxy_utils.py
HTTPMethods == {"GET", "HEAD", "POST", "PUT", "DELETE"}

SchemeHttp == <<"h", "t", "t", "p">>
SchemeHttps == <<"h", "t", "t", "p", "s">>
SchemeSocks4 == <<"s", "o", "c", "k", "s", "4">>
SchemeSocks5 == <<"s", "o", "c", "k", "s", "5">>
SchemeFtp == <<"f", "t", "p">>
SchemeNone == <<>>

StartsWith(s, p) == Len(s) >= Len(p) /\ SubSeq(s, 1, Len(p)) = p

\* str.lower() over the letters the addresses of the model are written in.
LowerOf == [H |-> "h", T |-> "t", P |-> "p", S |-> "s"]
LowerChar(c) == IF c \in DOMAIN LowerOf THEN LowerOf[c] ELSE c
Lower(s) == [i \in 1..Len(s) |-> LowerChar(s[i])]

\* str.strip(): the white space at both ends is removed.
RECURSIVE Strip(_)
Strip(s) ==
    IF s = <<>> THEN s
    ELSE IF Head(s) = " " THEN Strip(Tail(s))
    ELSE IF s[Len(s)] = " " THEN Strip(SubSeq(s, 1, Len(s) - 1))
    ELSE s

\* The characters urlparse accepts in a scheme.
SchemeChars ==
    {"h", "t", "p", "s", "o", "c", "k", "f", "4", "5",
     "H", "T", "P", "S"}

\* urlparse(address).scheme before it is lowered: what stands before the
\* first colon when that is made of scheme characters, else nothing.
UrlScheme(address) ==
    LET colons == {i \in 1..Len(address) : address[i] = ":"}
    IN  IF colons = {} THEN <<>>
        ELSE LET first == CHOOSE i \in colons : \A j \in colons : i <= j
                 prefix == SubSeq(address, 1, first - 1)
             IN  IF prefix # <<>> /\ \A k \in 1..Len(prefix) :
                                        prefix[k] \in SchemeChars
                 THEN prefix
                 ELSE <<>>

\* Line 234: the scheme infer_type finds in a proxy address.
SchemeOf(proxy) == Lower(UrlScheme(Strip(proxy)))

\* A classification that knows SOCKS5 only.
infer_typeSocks5Only(scheme) ==
    IF Lower(scheme) \in {SchemeHttp, SchemeHttps} THEN "HTTP"
    ELSE IF Lower(scheme) = SchemeSocks5 THEN "SOCKS"
    ELSE "ValueError"

\* infer_type over the scheme of the address: "HTTP", "SOCKS", or
\* "ValueError" when it raises.
infer_type(scheme) ==
    IF Lower(scheme) \in {SchemeHttp, SchemeHttps} THEN "HTTP"
    ELSE IF StartsWith(Lower(scheme), <<"s", "o", "c", "k", "s">>)
         THEN "SOCKS"
    ELSE "ValueError"

\* Line 239: the error infer_type raises, with what its message names.
UnsupportedScheme(proxy) ==
    [tag |-> "raise", exc |-> "ValueError",
     scheme |-> SchemeOf(proxy), proxy |-> proxy]

\* Delays are in tenths of a second.
DefaultBaseDelay == 10
DefaultMaxDelay == 600
JitterLow == 2
JitterHigh == 5

Min(a, b) == IF a <= b THEN a ELSE b

\* A backoff that adds its jitter after the cap is applied.
get_exponential_backoffJitterLast(n, base_delay, jitter, max_delay, rnd) ==
    LET delay == Min(base_delay * (2 ^ n), max_delay)
    IN  IF jitter THEN delay + rnd ELSE delay

\* Lines 36-41; rnd is what random.uniform(0.2, 0.5) gives.
get_exponential_backoff(n, base_delay, jitter, max_delay, rnd) ==
    LET delay == base_delay * (2 ^ n)
        jittered == IF jitter THEN delay + rnd ELSE delay
    IN  Min(jittered, max_delay)

\* -------------------------------------------------------- proxy_request.py
\* What the network does to one attempt (the environment's choice).
NetOk == "ok"                    \* response, status 200, same host
NetHttpError == "http_error"     \* response, status 500, same host
NetRedirected == "redirected"    \* response whose final URL is another host
NetTimeout == "timeout"          \* asyncio.TimeoutError
NetConnError == "conn_error"     \* aiohttp.ClientConnectionError
NetCertError == "cert_error"     \* aiohttp.ClientConnectorCertificateError
NetCrash == "crash"              \* any other exception
NetBehaviours ==
    {NetOk, NetHttpError, NetRedirected, NetTimeout, NetConnError,
     NetCertError, NetCrash}

Returned(v) == [tag |-> "return", value |-> v]
Raised(e) == [tag |-> "raise", exc |-> e]

\* The response object of an attempt; `tag` identifies the attempt.
Response(net, tag) ==
    [body |-> Body(tag),
     url |-> Url(IF net = NetRedirected THEN OtherHost ELSE TargetHost),
     status |-> IntV(IF net = NetHttpError THEN 500 ELSE 200),
     headers |-> Headers(tag)]

SuccessDict(resp) ==
    Dict(<< <<"body", resp.body>>, <<"url", resp.url>>,
            <<"status", resp.status>>, <<"headers", resp.headers>> >>)

FailureDict(net, proxy) ==
    Dict(<< <<"error", StrV(net)>>, <<"url", Url(TargetHost)>>,
            <<"proxy", proxy>>, <<"status", None>>, <<"body", None>>,
            <<"headers", EmptyDict>> >>)

\* Lines 67-71: the connector of the session.
Connector(proxy_type, proxy) ==
    IF proxy_type = "HTTP"
    THEN [kind |-> "TCPConnector", proxy |-> None]
    ELSE [kind |-> "ProxyConnector", proxy |-> proxy]

\* Lines 95-99: the keyword arguments of the request.
RequestKwargs == {"allow_redirects", "max_redirects"}

\* A request that dials the target itself, and one that dials a proxy.
Direct == [kind |-> "direct"]
Via(proxy) == [kind |-> "via", proxy |-> proxy]

\* Lines 83-99: where the request of the session goes.  A SOCKS connector
\* dials its proxy; any other connector dials the proxy= argument of the
\* request when there is one (trust_env is False) and the target otherwise.
RouteOf(connector, kwargs, proxy) ==
    IF connector.kind = "ProxyConnector" THEN Via(connector.proxy)
    ELSE IF "proxy" \in kwargs THEN Via(proxy)
    ELSE Direct

\* An origin check that is only made on responses with an error status.
OriginMismatchOnErrorStatus(verify, resp) ==
    verify /\ resp.status # IntV(200)
           /\ Url(TargetHost).host # resp.url.host

\* The origin check of submit: true when the attempt must be rejected.
OriginMismatch(verify, resp) ==
    verify /\ Url(TargetHost).host # resp.url.host

\* ProxyRequest.submit for the target URL: what the call returns or raises.
submit(scheme, proxy, net, verify, tag) ==
    IF infer_type(scheme) = "ValueError" THEN Raised("ValueError")
    ELSE IF net = NetCertError THEN Returned(None)
    ELSE IF net \in {NetTimeout, NetConnError}
         THEN Returned(FailureDict(net, proxy))
    ELSE IF net = NetCrash THEN Raised("RuntimeError")
    ELSE IF OriginMismatch(verify, Response(net, tag))
         THEN Raised("ProxyOriginMismatchError")
    ELSE Returned(SuccessDict(Response(net, tag)))

\* The executor's Success outcome: a response was received and accepted.
IsSuccess(out) ==
    /\ out.tag = "return"
    /\ out.value # None
    /\ DictGet(out.value, "status") # None

\* ================================================================ state
VARIABLES
    call,               \* the function this behaviour calls: "brute",
                        \* "smart", "submit" or "backoff"
    \* ---- BruteFetch.fetch
    proxies,            \* argument: the proxy list, entries [scheme, net]
    concurrency_limit,  \* argument
    verify_origin,      \* BruteFetch(verify_origin=...)
    http_method,        \* argument
    proxy_queue,        \* asyncio.Queue of indices into proxies
    result_container,   \* result_container["result"]: None or the winner
    task,               \* task[w]: state of worker task w
    holding,            \* holding[w]: the entry worker w is attempting, or 0
    mainPc,             \* position of fetch itself
    attempted,          \* history: attempted[i] = submits made for entry i
    slotWrites,         \* history: assignments made to the winner slot
    completed,          \* history: entries whose submit has completed
    \* ---- SmartFetch.fetch
    method,             \* argument
    http_proxy_arg,     \* argument http_proxy: None or [scheme]
    socks_proxy,        \* argument socks_proxy: None or [scheme]
    http_retries,       \* argument
    socks_retries,      \* argument
    http_proxy,         \* the local http_proxy, set to None when invalid
    smartPc,            \* position of fetch
    attempt,            \* loop variable of the retry loop being run
    smartResult,        \* what fetch returned, or None
    trace,              \* history: probes, attempts and sleeps, in order
    lastNet,            \* history: what the network did to the last attempt
    \* ---- ProxyRequest.submit
    exProxy,            \* argument proxy: the address, a string
    exVerify,           \* ProxyRequest(verify_origin=...)
    exPc,               \* position of submit
    exType,             \* the local proxy_type
    exRoute,            \* history: where the request was sent
    exNet,              \* history: what the network did to the request
    exOut,              \* what submit returned or raised
    \* ---- get_exponential_backoff
    boAttempt,          \* argument attempt
    boJitter,           \* argument jitter
    boRandom,           \* what random.uniform gives when it is asked
    boPc,               \* position of the call
    boDelay             \* what the call returned

bruteVars ==
    <<proxies, concurrency_limit, verify_origin, http_method, proxy_queue,
      result_container, task, holding, mainPc, attempted, slotWrites,
      completed>>

smartVars ==
    <<method, http_proxy_arg, socks_proxy, http_retries, socks_retries,
      http_proxy, smartPc, attempt, smartResult, trace, lastNet>>

executorVars ==
    <<exProxy, exVerify, exPc, exType, exRoute, exNet, exOut>>

backoffVars == <<boAttempt, boJitter, boRandom, boPc, boDelay>>

restVars == <<executorVars, backoffVars>>

vars == <<call, bruteVars, smartVars, restVars>>

\* ------------------------------------------------------------ inputs
Proxy(i) == [kind |-> "proxy", id |-> i]

BruteNets == {NetOk, NetRedirected, NetTimeout, NetCertError, NetCrash}

\* The proxies a race may be given: HTTP proxies with each behaviour of the
\* network, and one address with an unsupported scheme.
ProxyPool ==
    {[scheme |-> SchemeHttp, net |-> n] : n \in BruteNets}
        \cup {[scheme |-> SchemeFtp, net |-> NetOk]}

ProxyLists == UNION {[1..n -> ProxyPool] : n \in 0..MaxProxies}

BruteMethods == {"GET", "HEAD"}

Workers == 1..concurrency_limit

\* ------------------------------------------------------------ brute_fetch.py
\* What submit gives for entry i of the list.
AttemptOutcome(i) ==
    submit(proxies[i].scheme, Proxy(i), proxies[i].net, verify_origin, i)

\* The claim of line 72 without its test of the slot.
CanClaimNoCheck(result, slot) == Truthy(result)

\* Line 72: the worker records its result when this holds.
CanClaim(result, slot) == Truthy(result) /\ ~Truthy(slot)

\* A winner record that reports GET as the final method.
WinnerRecordFinalGet(result, proxy, meth) ==
    [body |-> DictGet(result, "body"),
     url |-> DictGet(result, "url"),
     status |-> DictGet(result, "status"),
     headers |-> DictGet(result, "headers"),
     used_proxy |-> proxy,
     initial_method |-> meth,
     final_method |-> "GET"]

\* Lines 73-81: the record a worker stores in the winner slot.
WinnerRecord(result, proxy, meth) ==
    [body |-> DictGet(result, "body"),
     url |-> DictGet(result, "url"),
     status |-> DictGet(result, "status"),
     headers |-> DictGet(result, "headers"),
     used_proxy |-> proxy,
     initial_method |-> meth,
     final_method |-> meth]

\* A handler that catches only the errors of the network.
WorkerCatchesNetworkErrors(exc) == exc \in {"TimeoutError", "ClientError"}

\* Lines 83-90: the exceptions of an attempt the worker swallows.
WorkerCatches(exc) == TRUE

\* A queue that never says it is empty.
QueueEmptyNever(queue) == FALSE

\* Line 61: asyncio.Queue.empty().
QueueEmpty(queue) == queue = <<>>

\* A loop that goes on while the queue has entries, winner or not.
LoopContinuesIgnoresWinner(queue, slot) == ~QueueEmpty(queue)

\* Line 61: the condition of the worker's while loop.
LoopContinues(queue, slot) == ~QueueEmpty(queue) /\ ~Truthy(slot)

\* A worker loop that reads the head of the queue without removing it.
RECURSIVE WorkerLoopPeek(_, _, _)
WorkerLoopPeek(queue, slot, att) ==
    IF ~LoopContinues(queue, slot)
    THEN [state |-> "done", queue |-> queue, proxy |-> 0, att |-> att]
    ELSE IF queue = <<>>
    THEN [state |-> "waiting", queue |-> queue, proxy |-> 0, att |-> att]
    ELSE LET i == Head(queue)
             att2 == [att EXCEPT ![i] = @ + 1]
         IN  IF infer_type(proxies[i].scheme) # "ValueError"
             THEN [state |-> "inflight", queue |-> queue,
                   proxy |-> i, att |-> att2]
             ELSE IF WorkerCatches("ValueError")
             THEN WorkerLoopPeek(Tail(queue), slot, att2)
             ELSE [state |-> "failed", queue |-> Tail(queue),
                   proxy |-> 0, att |-> att2]

\* Lines 61-71: a worker runs its loop until it suspends in the network
\* I/O of a submit, in a get() on the empty queue, which nothing fills
\* again, or leaves the loop.  infer_type raises before submit
\* suspends, so an entry with an unsupported scheme is consumed on the way.
RECURSIVE WorkerLoop(_, _, _)
WorkerLoop(queue, slot, att) ==
    IF ~LoopContinues(queue, slot)
    THEN [state |-> "done", queue |-> queue, proxy |-> 0, att |-> att]
    ELSE IF queue = <<>>
    THEN [state |-> "waiting", queue |-> queue, proxy |-> 0, att |-> att]
    ELSE LET i == Head(queue)
             att2 == [att EXCEPT ![i] = @ + 1]
         IN  IF infer_type(proxies[i].scheme) # "ValueError"
             THEN [state |-> "inflight", queue |-> Tail(queue),
                   proxy |-> i, att |-> att2]
             ELSE IF WorkerCatches("ValueError")
             THEN WorkerLoop(Tail(queue), slot, att2)
             ELSE [state |-> "failed", queue |-> Tail(queue),
                   proxy |-> 0, att |-> att2]

\* A task is done() when it has returned, raised or been cancelled.
TaskDone(w) == task[w] \in {"done", "failed", "cancelled"}

\* A fetch that does not join its workers.
GatherReturnsNoJoin == TRUE

\* Lines 108 and 111: gather(*workers) returns when every task is done.
GatherReturns == \A w \in Workers : TaskDone(w)

\* A fetch that does not test its list.
NoProxiesUnchecked(ps) == FALSE

\* Line 44: `not proxies`.
NoProxies(ps) == ps = <<>>

\* Lines 44-46: an empty list returns None at once.
FetchEmpty ==
    /\ call = "brute" /\ mainPc = "entry"
    /\ NoProxies(proxies)
    /\ mainPc' = "returned"
    /\ UNCHANGED <<smartVars, restVars>>
    /\ UNCHANGED <<call, proxies, concurrency_limit, verify_origin,
                   http_method, proxy_queue, result_container, task, holding,
                   attempted, slotWrites, completed>>

\* Lines 48-100: fill the queue, create the workers, wait for the first of
\* them to complete.
FetchStart ==
    /\ call = "brute" /\ mainPc = "entry"
    /\ ~NoProxies(proxies)
    /\ proxy_queue' = [i \in 1..Len(proxies) |-> i]
    /\ task' = [w \in Workers |-> "created"]
    /\ holding' = [w \in Workers |-> 0]
    /\ mainPc' = "wait_first"
    /\ UNCHANGED <<smartVars, restVars>>
    /\ UNCHANGED <<call, proxies, concurrency_limit, verify_origin,
                   http_method, result_container, attempted, slotWrites,
                   completed>>

\* A created worker task runs for the first time.
WorkerStart(w) ==
    /\ call = "brute" /\ task[w] = "created"
    /\ LET r == WorkerLoop(proxy_queue, result_container, attempted)
       IN  /\ task' = [task EXCEPT ![w] = r.state]
           /\ holding' = [holding EXCEPT ![w] = r.proxy]
           /\ proxy_queue' = r.queue
           /\ attempted' = r.att
    /\ UNCHANGED <<smartVars, restVars>>
    /\ UNCHANGED <<call, proxies, concurrency_limit, verify_origin,
                   http_method, result_container, mainPc, slotWrites,
                   completed>>

\* Lines 65-93, then 61: the submit a worker is suspended in completes; the
\* worker handles what it gave and goes round its loop again.
WorkerComplete(w) ==
    /\ call = "brute" /\ task[w] = "inflight"
    /\ LET i == holding[w]
           out == AttemptOutcome(i)
           claims == out.tag = "return"
                        /\ CanClaim(out.value, result_container)
           slot == IF claims
                   THEN WinnerRecord(out.value, Proxy(i), http_method)
                   ELSE result_container
           r == IF out.tag = "raise" /\ ~WorkerCatches(out.exc)
                THEN [state |-> "failed", queue |-> proxy_queue,
                      proxy |-> 0, att |-> attempted]
                ELSE WorkerLoop(proxy_queue, slot, attempted)
       IN  /\ result_container' = slot
           /\ slotWrites' = IF claims THEN slotWrites + 1 ELSE slotWrites
           /\ task' = [task EXCEPT ![w] = r.state]
           /\ holding' = [holding EXCEPT ![w] = r.proxy]
           /\ proxy_queue' = r.queue
           /\ attempted' = r.att
           /\ completed' = completed \cup {i}
    /\ UNCHANGED <<smartVars, restVars>>
    /\ UNCHANGED <<call, proxies, concurrency_limit, verify_origin,
                   http_method, mainPc>>

\* Lines 100-107: asyncio.wait(FIRST_COMPLETED) returns once some worker is
\* done; with a winner recorded every worker that is not done is cancelled.
FirstCompleted ==
    /\ call = "brute" /\ mainPc = "wait_first"
    /\ \E w \in Workers : TaskDone(w)
    /\ IF Truthy(result_container)
       THEN /\ task' = [w \in Workers |->
                            IF TaskDone(w) THEN task[w] ELSE "cancelling"]
            /\ mainPc' = "gather_cancelled"
       ELSE /\ task' = task
            /\ mainPc' = "gather_all"
    /\ UNCHANGED <<smartVars, restVars>>
    /\ UNCHANGED <<call, proxies, concurrency_limit, verify_origin,
                   http_method, proxy_queue, result_container, holding,
                   attempted, slotWrites, completed>>

\* CancelledError is thrown into a cancelled worker at its suspension point;
\* it is not an Exception, so the worker's handler lets it through.
WorkerCancelled(w) ==
    /\ call = "brute" /\ task[w] = "cancelling"
    /\ task' = [task EXCEPT ![w] = "cancelled"]
    /\ holding' = [holding EXCEPT ![w] = 0]
    /\ UNCHANGED <<smartVars, restVars>>
    /\ UNCHANGED <<call, proxies, concurrency_limit, verify_origin,
                   http_method, proxy_queue, result_container, mainPc,
                   attempted, slotWrites, completed>>

\* Lines 108-123: gather returns and fetch returns the winner slot.
FetchReturn ==
    /\ call = "brute" /\ mainPc \in {"gather_cancelled", "gather_all"}
    /\ GatherReturns
    /\ mainPc' = "returned"
    /\ UNCHANGED <<smartVars, restVars>>
    /\ UNCHANGED <<call, proxies, concurrency_limit, verify_origin,
                   http_method, proxy_queue, result_container, task, holding,
                   attempted, slotWrites, completed>>

\* ------------------------------------------------------------ proxy_utils.py
ProbeOk == "probe_200"
ProbeNon200 == "probe_non_200"
ProbeConnError == "probe_conn_error"     \* aiohttp.ClientError family
ProbeTimeout == "probe_timeout"          \* asyncio.TimeoutError
ProbeBehaviours == {ProbeOk, ProbeNon200, ProbeConnError, ProbeTimeout}

\* validate_proxy: the status is compared with 200, the aiohttp errors are
\* caught and give False; asyncio.TimeoutError is not among them.
validate_proxy(probe) ==
    IF probe = ProbeOk THEN Returned(TRUE)
    ELSE IF probe = ProbeNon200 THEN Returned(FALSE)
    ELSE IF probe = ProbeConnError THEN Returned(FALSE)
    ELSE Raised("TimeoutError")

\* ------------------------------------------------------------ smart_fetch.py
MaxRetries == 2

SmartMethods == {"HEAD", "GET", "POST"}
HttpProxyArgs == {None, [scheme |-> SchemeHttp]}
SocksProxyArgs == {None, [scheme |-> SchemeSocks5], [scheme |-> SchemeFtp]}

HttpProxyId == Proxy(1)
SocksProxyId == Proxy(2)

\* SmartFetch builds ProxyRequest(verify_ssl=...): verify_origin defaults on.
SmartVerifyOrigin == TRUE

\* A _format that reports the attempt number instead of the loop index.
formatAttemptNumber(result, proxy, retries, initial_method, final_method) ==
    LET seq == DictIter(result)
    IN  IF Len(seq) # 4 THEN Raised("ValueError")
        ELSE Returned([body |-> seq[1],
                       url |-> seq[2],
                       status |-> seq[3],
                       headers |-> seq[4],
                       used_proxy |-> proxy,
                       retries |-> retries + 1,
                       initial_method |-> initial_method,
                       final_method |-> final_method])

\* _format: the result is unpacked into four names, which iterates it.
format(result, proxy, retries, initial_method, final_method) ==
    LET seq == DictIter(result)
    IN  IF Len(seq) # 4 THEN Raised("ValueError")
        ELSE Returned([body |-> seq[1],
                       url |-> seq[2],
                       status |-> seq[3],
                       headers |-> seq[4],
                       used_proxy |-> proxy,
                       retries |-> retries,
                       initial_method |-> initial_method,
                       final_method |-> final_method])

\* Lines 67-75, 88-93, 111-119: the exceptions an attempt's try swallows.
SmartCatches(exc) == TRUE

\* The try body of one attempt: submit, then `if result: return _format`.
\* Gives Returned(record) when fetch returns, Returned(None) when the
\* attempt is over without a result, Raised(e) when e leaves fetch.
TryAttempt(scheme, proxy, net, retries, final_method) ==
    LET out == submit(scheme, proxy, net, SmartVerifyOrigin, Len(trace) + 1)
        res == IF out.tag = "return" /\ Truthy(out.value)
               THEN format(out.value, proxy, retries, method, final_method)
               ELSE out
    IN  IF res.tag = "raise"
        THEN IF SmartCatches(res.exc) THEN Returned(None) ELSE res
        ELSE res

Event(stage, what, proxy, ok) ==
    [stage |-> stage, what |-> what, proxy |-> proxy, ok |-> ok]

Position(pc, a) == [pc |-> pc, attempt |-> a]

\* A SOCKS loop that falls back to the HTTP GET when it is exhausted.
SocksLoopFallsBack(a) ==
    IF socks_proxy # None /\ a < socks_retries
    THEN Position("socks", a)
    ELSE IF http_proxy # None /\ a > 0
    THEN Position("get", 0) ELSE Position("returned", 0)

\* Lines 96-123: the SOCKS loop from index a on.
SocksLoop(a) ==
    IF socks_proxy # None /\ a < socks_retries
    THEN Position("socks", a) ELSE Position("returned", 0)

\* Lines 80-96: the single GET through the HTTP proxy, if still set.
EnterGet(hp) ==
    IF hp # None THEN Position("get", 0) ELSE SocksLoop(0)

\* A HEAD loop that makes one attempt more than it was given.
HeadLoopOneMore(a, hp) ==
    IF method = "HEAD" /\ hp # None /\ a <= http_retries
    THEN Position("head", a) ELSE EnterGet(hp)

\* Lines 52-53: the HEAD loop from index a on.
HeadLoop(a, hp) ==
    IF method = "HEAD" /\ hp # None /\ a < http_retries
    THEN Position("head", a) ELSE EnterGet(hp)

\* A fetch that does not test its proxies.
NoProxyProvidedUnchecked(hp, sp) == FALSE

\* Line 42: `not http_proxy and not socks_proxy`.
NoProxyProvided(hp, sp) == hp = None /\ sp = None

\* Lines 42-48.
SmartEntry ==
    /\ call = "smart" /\ smartPc = "entry"
    /\ IF NoProxyProvided(http_proxy_arg, socks_proxy)
       THEN smartPc' = "raised" /\ attempt' = attempt
       ELSE IF http_proxy_arg # None
       THEN smartPc' = "validate" /\ attempt' = attempt
       ELSE /\ smartPc' = HeadLoop(0, None).pc
            /\ attempt' = HeadLoop(0, None).attempt
    /\ UNCHANGED <<bruteVars, restVars>>
    /\ UNCHANGED <<call, method, http_proxy_arg, socks_proxy, http_retries,
                   socks_retries, http_proxy, smartResult, trace, lastNet>>

\* Lines 48-50: the reachability probe of the HTTP proxy.
Validate(probe) ==
    /\ call = "smart" /\ smartPc = "validate"
    /\ LET v == validate_proxy(probe)
           hp == IF v.tag = "return" /\ v.value THEN http_proxy ELSE None
       IN  /\ trace' = Append(trace,
                  Event("validate", "probe", HttpProxyId,
                        v.tag = "return" /\ v.value))
           /\ http_proxy' = hp
           /\ IF v.tag = "raise"
              THEN smartPc' = "raised" /\ attempt' = attempt
              ELSE /\ smartPc' = HeadLoop(0, hp).pc
                   /\ attempt' = HeadLoop(0, hp).attempt
    /\ UNCHANGED <<bruteVars, restVars>>
    /\ UNCHANGED <<call, method, http_proxy_arg, socks_proxy, http_retries,
                   socks_retries, smartResult, lastNet>>

\* Lines 54-75: one HEAD attempt through the HTTP proxy.
HeadAttempt(net) ==
    /\ lastNet' = net
    /\ call = "smart" /\ smartPc = "head"
    /\ LET r == TryAttempt(http_proxy.scheme, HttpProxyId, net, attempt,
                           "HEAD")
       IN  /\ trace' = Append(trace,
                  Event("head", "HEAD", HttpProxyId,
                        r.tag = "return" /\ r.value # None))
           /\ smartResult' = IF r.tag = "return" THEN r.value ELSE None
           /\ smartPc' = IF r.tag = "raise" THEN "raised"
                         ELSE IF r.value # None THEN "returned"
                         ELSE "head_sleep"
    /\ UNCHANGED <<bruteVars, restVars>>
    /\ UNCHANGED <<call, method, http_proxy_arg, socks_proxy, http_retries,
                   socks_retries, http_proxy, attempt>>

\* Line 77, then the next iteration of the loop of line 53.
HeadSleep ==
    /\ call = "smart" /\ smartPc = "head_sleep"
    /\ trace' = Append(trace, Event("head", "sleep", None, TRUE))
    /\ smartPc' = HeadLoop(attempt + 1, http_proxy).pc
    /\ attempt' = HeadLoop(attempt + 1, http_proxy).attempt
    /\ UNCHANGED <<bruteVars, restVars>>
    /\ UNCHANGED <<call, method, http_proxy_arg, socks_proxy, http_retries,
                   socks_retries, http_proxy, smartResult, lastNet>>

\* Lines 80-93: the single GET through the HTTP proxy.
GetAttempt(net) ==
    /\ lastNet' = net
    /\ call = "smart" /\ smartPc = "get"
    /\ LET r == TryAttempt(http_proxy.scheme, HttpProxyId, net, 0, "GET")
       IN  /\ trace' = Append(trace,
                  Event("get", "GET", HttpProxyId,
                        r.tag = "return" /\ r.value # None))
           /\ smartResult' = IF r.tag = "return" THEN r.value ELSE None
           /\ IF r.tag = "raise"
              THEN smartPc' = "raised" /\ attempt' = attempt
              ELSE IF r.value # None
              THEN smartPc' = "returned" /\ attempt' = attempt
              ELSE /\ smartPc' = SocksLoop(0).pc
                   /\ attempt' = SocksLoop(0).attempt
    /\ UNCHANGED <<bruteVars, restVars>>
    /\ UNCHANGED <<call, method, http_proxy_arg, socks_proxy, http_retries,
                   socks_retries, http_proxy>>

\* Lines 98-119: one GET attempt through the SOCKS proxy.
SocksAttempt(net) ==
    /\ lastNet' = net
    /\ call = "smart" /\ smartPc = "socks"
    /\ LET r == TryAttempt(socks_proxy.scheme, SocksProxyId, net, attempt,
                           "GET")
       IN  /\ trace' = Append(trace,
                  Event("socks", "GET", SocksProxyId,
                        r.tag = "return" /\ r.value # None))
           /\ smartResult' = IF r.tag = "return" THEN r.value ELSE None
           /\ smartPc' = IF r.tag = "raise" THEN "raised"
                         ELSE IF r.value # None THEN "returned"
                         ELSE "socks_sleep"
    /\ UNCHANGED <<bruteVars, restVars>>
    /\ UNCHANGED <<call, method, http_proxy_arg, socks_proxy, http_retries,
                   socks_retries, http_proxy, attempt>>

\* Line 121, then the next iteration of the loop of line 97.
SocksSleep ==
    /\ call = "smart" /\ smartPc = "socks_sleep"
    /\ trace' = Append(trace, Event("socks", "sleep", None, TRUE))
    /\ smartPc' = SocksLoop(attempt + 1).pc
    /\ attempt' = SocksLoop(attempt + 1).attempt
    /\ UNCHANGED <<bruteVars, restVars>>
    /\ UNCHANGED <<call, method, http_proxy_arg, socks_proxy, http_retries,
                   socks_retries, http_proxy, smartResult, lastNet>>

\* ------------------------------------------------------ proxy_request.py
\* The addresses submit may be given.
Address(scheme) == scheme \o <<":", "x">>
PaddedUpperHttp == <<" ", "H", "T", "T", "P", ":", "x", " ">>
SchemeSocks5h == <<"s", "o", "c", "k", "s", "5", "h">>
NoSchemeAddress == <<"x">>
Addresses ==
    {Address(SchemeHttp), Address(SchemeHttps), PaddedUpperHttp,
     Address(SchemeSocks4), Address(SchemeSocks5), Address(SchemeSocks5h),
     Address(SchemeFtp), NoSchemeAddress}

\* Line 62: the address is classified; infer_type raises out of submit.
SubmitClassify ==
    /\ call = "submit" /\ exPc = "entry"
    /\ IF infer_type(UrlScheme(Strip(exProxy))) = "ValueError"
       THEN /\ exPc' = "raised"
            /\ exOut' = UnsupportedScheme(exProxy)
            /\ UNCHANGED exType
       ELSE /\ exPc' = "classified"
            /\ exType' = infer_type(UrlScheme(Strip(exProxy)))
            /\ UNCHANGED exOut
    /\ UNCHANGED <<call, exProxy, exVerify, exRoute, exNet>>
    /\ UNCHANGED <<bruteVars, smartVars, backoffVars>>

\* Lines 64-99: the session is built and the request is sent.
SubmitRequest ==
    /\ call = "submit" /\ exPc = "classified"
    /\ exRoute' = RouteOf(Connector(exType, exProxy), RequestKwargs, exProxy)
    /\ exPc' = "requesting"
    /\ UNCHANGED <<call, exProxy, exVerify, exType, exNet, exOut>>
    /\ UNCHANGED <<bruteVars, smartVars, backoffVars>>

\* Lines 99-179: the network answers or fails, and submit ends.
SubmitComplete(net) ==
    /\ call = "submit" /\ exPc = "requesting"
    /\ exNet' = net
    /\ exOut' = submit(UrlScheme(Strip(exProxy)), Proxy(exProxy), net,
                       exVerify, 0)
    /\ exPc' = IF exOut'.tag = "raise" THEN "raised" ELSE "returned"
    /\ UNCHANGED <<call, exProxy, exVerify, exType, exRoute>>
    /\ UNCHANGED <<bruteVars, smartVars, backoffVars>>

\* --------------------------------------------------------- proxy_utils.py
\* Lines 36-41 with the default base_delay and max_delay.
Backoff ==
    /\ call = "backoff" /\ boPc = "entry"
    /\ boDelay' = get_exponential_backoff(boAttempt, DefaultBaseDelay,
                                          boJitter, DefaultMaxDelay, boRandom)
    /\ boPc' = "returned"
    /\ UNCHANGED <<call, boAttempt, boJitter, boRandom>>
    /\ UNCHANGED <<bruteVars, smartVars, executorVars>>

SmartInit ==
    /\ method \in SmartMethods
    /\ http_proxy_arg \in HttpProxyArgs
    /\ socks_proxy \in SocksProxyArgs
    /\ http_retries \in 0..MaxRetries
    /\ socks_retries \in 0..MaxRetries
    /\ http_proxy = http_proxy_arg
    /\ smartPc = "entry"
    /\ attempt = 0
    /\ smartResult = None
    /\ trace = <<>>
    /\ lastNet = "none"

\* The variables of the fetcher that is not called stay as they start.
BruteIdle ==
    /\ proxies = <<>> /\ concurrency_limit = 1 /\ verify_origin = TRUE
    /\ http_method = "GET" /\ proxy_queue = <<>>
    /\ result_container = None /\ task = <<>> /\ holding = <<>>
    /\ mainPc = "idle" /\ attempted = <<>> /\ slotWrites = 0
    /\ completed = {}

SmartIdle ==
    /\ method = "GET" /\ http_proxy_arg = None /\ socks_proxy = None
    /\ http_retries = 0 /\ socks_retries = 0 /\ http_proxy = None
    /\ smartPc = "idle" /\ attempt = 0 /\ smartResult = None
    /\ trace = <<>> /\ lastNet = "none"

BruteInit ==
    /\ proxies \in ProxyLists
    /\ concurrency_limit \in 1..MaxWorkers
    /\ verify_origin \in BOOLEAN
    /\ http_method \in BruteMethods
    /\ proxy_queue = <<>>
    /\ result_container = None
    /\ task = <<>>
    /\ holding = <<>>
    /\ mainPc = "entry"
    /\ attempted = [i \in 1..Len(proxies) |-> 0]
    /\ slotWrites = 0
    /\ completed = {}

ExecutorIdle ==
    /\ exProxy = <<>> /\ exVerify = TRUE /\ exPc = "idle"
    /\ exType = "none" /\ exRoute = None /\ exNet = "none"
    /\ exOut = None

BackoffIdle ==
    /\ boAttempt = 0 /\ boJitter = FALSE /\ boRandom = JitterLow
    /\ boPc = "idle" /\ boDelay = 0

ExecutorInit ==
    /\ exProxy \in Addresses
    /\ exVerify \in BOOLEAN
    /\ exPc = "entry"
    /\ exType = "none"
    /\ exRoute = None
    /\ exNet = "none"
    /\ exOut = None

BackoffInit ==
    /\ boAttempt \in 0..MaxAttempt
    /\ boJitter \in BOOLEAN
    /\ boRandom \in JitterLow..JitterHigh
    /\ boPc = "entry"
    /\ boDelay = 0

Init ==
    \/ call = "brute" /\ BruteInit /\ SmartIdle /\ ExecutorIdle
                      /\ BackoffIdle
    \/ call = "smart" /\ SmartInit /\ BruteIdle /\ ExecutorIdle
                      /\ BackoffIdle
    \/ call = "submit" /\ ExecutorInit /\ BruteIdle /\ SmartIdle
                       /\ BackoffIdle
    \/ call = "backoff" /\ BackoffInit /\ BruteIdle /\ SmartIdle
                        /\ ExecutorIdle

Next ==
    \/ FetchEmpty
    \/ FetchStart
    \/ \E w \in DOMAIN task : WorkerStart(w)
    \/ \E w \in DOMAIN task : WorkerComplete(w)
    \/ FirstCompleted
    \/ \E w \in DOMAIN task : WorkerCancelled(w)
    \/ FetchReturn
    \/ SmartEntry
    \/ \E probe \in ProbeBehaviours : Validate(probe)
    \/ \E net \in NetBehaviours : HeadAttempt(net)
    \/ HeadSleep
    \/ \E net \in NetBehaviours : GetAttempt(net)
    \/ \E net \in NetBehaviours : SocksAttempt(net)
    \/ SocksSleep
    \/ SubmitClassify
    \/ SubmitRequest
    \/ \E net \in NetBehaviours : SubmitComplete(net)
    \/ Backoff

Spec == Init /\ [][Next]_vars

\* The races whose termination is checked: every way an attempt can end
\* for its worker (a response, a response of another host, a failure dict,
\* an exception, an address that is not classified).
LiveNets == {NetOk, NetRedirected, NetTimeout, NetCrash}

LiveProxyPool ==
    {[scheme |-> SchemeHttp, net |-> n] : n \in LiveNets}
        \cup {[scheme |-> SchemeFtp, net |-> NetOk]}

LiveInit ==
    /\ call = "brute"
    /\ proxies \in UNION {[1..n -> LiveProxyPool] : n \in 0..MaxProxies}
    /\ concurrency_limit \in 1..MaxWorkers
    /\ verify_origin \in BOOLEAN
    /\ http_method = "GET"
    /\ proxy_queue = <<>>
    /\ result_container = None
    /\ task = <<>>
    /\ holding = <<>>
    /\ mainPc = "entry"
    /\ attempted = [i \in 1..Len(proxies) |-> 0]
    /\ slotWrites = 0
    /\ completed = {}
    /\ SmartIdle /\ ExecutorIdle /\ BackoffIdle

LiveNext ==
    \/ FetchEmpty
    \/ FetchStart
    \/ \E w \in DOMAIN task : WorkerStart(w)
    \/ \E w \in DOMAIN task : WorkerComplete(w)
    \/ FirstCompleted
    \/ \E w \in DOMAIN task : WorkerCancelled(w)
    \/ FetchReturn

\* The event loop runs a task that can run, and every attempt ends: a step
\* that stays possible is taken.
Fairness == WF_vars(LiveNext)

FairSpec == LiveInit /\ [][LiveNext]_vars /\ Fairness

\* ============================================================ properties
Entries == 1..Len(proxies)

\* The entries whose attempt gives the executor's Success outcome.
Succeeding == {i \in Entries : IsSuccess(AttemptOutcome(i))}

\* The winner slot holds what the attempt of entry i returned, and nothing
\* of any other attempt.
SlotIsOutcomeOf(i) ==
    LET out == AttemptOutcome(i)
    IN  /\ out.tag = "return" /\ out.value # None
        /\ result_container.body = DictGet(out.value, "body")
        /\ result_container.url = DictGet(out.value, "url")
        /\ result_container.status = DictGet(out.value, "status")
        /\ result_container.headers = DictGet(out.value, "headers")
        /\ result_container.used_proxy = Proxy(i)

\* C1: in one race the winner slot is assigned at most once; once an attempt
\* has succeeded the slot is set, what it holds is the outcome of one single
\* completed attempt, and that is what the call returns.
C1_WinnerSetAtMostOnce ==
    call = "brute" =>
        /\ slotWrites <= 1
        /\ (slotWrites = 0) <=> (result_container = None)
        /\ (completed \cap Succeeding # {}) => result_container # None
        /\ result_container # None =>
               \E i \in completed : SlotIsOutcomeOf(i)

\* C1 witness: a race returned after two attempts that both succeeded had
\* completed, with one assignment to the slot.
C1_Witness ==
    /\ call = "brute" /\ mainPc = "returned"
    /\ Cardinality(completed \cap Succeeding) >= 2
    /\ Succeeding = Entries
    /\ slotWrites = 1

\* C2: when no attempt gives a Success the race returns None, every entry
\* has been attempted exactly once, and no Failure is the race result.
C2_AllFailReturnsNull ==
    (call = "brute" /\ mainPc = "returned" /\ proxies # <<>>
        /\ Succeeding = {})
    => /\ result_container = None
       /\ \A i \in Entries : attempted[i] = 1

\* C3: when exactly one entry succeeds and every other fails, the race
\* returns that entry's response with used_proxy that entry and both methods
\* the requested one.
C3_OnlySuccessWins ==
    (call = "brute" /\ mainPc = "returned" /\ Cardinality(Succeeding) = 1)
    => /\ result_container # None
       /\ \E i \in Succeeding : SlotIsOutcomeOf(i)
       /\ result_container.initial_method = http_method
       /\ result_container.final_method = http_method

\* C4: once the winner slot is set and fetch has woken from its wait for
\* the first completed worker, no worker is left running an attempt that
\* fetch waits for: every other worker has been cancelled.
C4_NoWaitAfterWinner ==
    (call = "brute" /\ result_container # None /\ mainPc # "wait_first")
    => \A w \in DOMAIN task : task[w] # "inflight"

\* C5: when fetch has returned, every worker task it created is done:
\* none is running, in an attempt, or cancelled but not yet stopped.
C5_WorkersDoneAtReturn ==
    (call = "brute" /\ mainPc = "returned")
    => \A w \in DOMAIN task : task[w] \in {"done", "failed", "cancelled"}

\* C5 witness: fetch returned a winner after cancelling a worker that was
\* inside an attempt, and another returned None with all workers complete.
C5_Witness ==
    /\ call = "brute" /\ mainPc = "returned"
    /\ result_container # None
    /\ \E w \in DOMAIN task : task[w] = "cancelled"
    /\ \E i \in Entries : attempted[i] = 1 /\ i \notin completed

\* The attempts (not the sleeps) of a stage that the call has made.
AttemptsOf(stage) ==
    {k \in 1..Len(trace) : trace[k].stage = stage /\ trace[k].what # "sleep"}

\* Every attempt the arguments allow has been made.
StagesExhausted ==
    /\ Cardinality(AttemptsOf("head")) =
           IF method = "HEAD" /\ http_proxy # None THEN http_retries ELSE 0
    /\ Cardinality(AttemptsOf("get")) = IF http_proxy # None THEN 1 ELSE 0
    /\ Cardinality(AttemptsOf("socks")) =
           IF socks_proxy # None THEN socks_retries ELSE 0

\* C6: with the origin check on, an attempt whose response comes from
\* another host is never a Success and never the result; it ends no worker
\* and no call, and the proxies, attempts and stages that remain are tried.
C6_OriginMismatchIsOrdinaryFailure ==
    /\ (call = "brute" /\ verify_origin) =>
          /\ \A i \in Entries :
                 proxies[i].net = NetRedirected
                     => ~IsSuccess(AttemptOutcome(i))
          /\ result_container # None =>
                 proxies[result_container.used_proxy.id].net # NetRedirected
          /\ \A w \in DOMAIN task : task[w] # "failed"
          /\ (mainPc = "returned" /\ result_container = None) =>
                 \A i \in Entries : attempted[i] = 1
    /\ (call = "smart" /\ lastNet = NetRedirected) =>
          /\ smartResult = None
          /\ trace[Len(trace)].what = "sleep" \/ ~trace[Len(trace)].ok
          /\ smartPc # "raised"
          /\ smartPc = "returned" => StagesExhausted

\* C6 witness: a race with the origin check on and one worker returned the
\* response of the second entry after the first had answered from another
\* host.
C6_Witness ==
    /\ call = "brute" /\ verify_origin /\ mainPc = "returned"
    /\ concurrency_limit = 1
    /\ Len(proxies) >= 2
    /\ proxies[1].net = NetRedirected /\ 1 \in completed
    /\ result_container # None
    /\ result_container.used_proxy = Proxy(2)

\* C7: the body, url, status and headers of a result of SmartFetch.fetch
\* are those of the Success outcome of the attempt that succeeded, the
\* status being an integer.
C7_SmartResultIsTheResponse ==
    (call = "smart" /\ smartPc = "returned" /\ smartResult # None) =>
        LET ev == trace[Len(trace)]
            scheme == IF ev.proxy = HttpProxyId
                      THEN http_proxy.scheme ELSE socks_proxy.scheme
            out == submit(scheme, ev.proxy, lastNet, SmartVerifyOrigin,
                          Len(trace))
        IN  /\ smartResult.body = DictGet(out.value, "body")
            /\ smartResult.url = DictGet(out.value, "url")
            /\ smartResult.status = DictGet(out.value, "status")
            /\ smartResult.status.kind = "int"
            /\ smartResult.headers = DictGet(out.value, "headers")

\* C8: SmartFetch.fetch raises only when it is given no proxy; given one,
\* it ends by returning, and returns None when every stage is exhausted.
C8_RaisesOnlyWithoutProxy ==
    call = "smart" =>
        /\ smartPc = "raised" =>
               (http_proxy_arg = None /\ socks_proxy = None)
        /\ (smartPc = "returned"
               /\ \A k \in 1..Len(trace) :
                      trace[k].what = "probe" \/ ~trace[k].ok)
               => (smartResult = None /\ StagesExhausted)

StageRank(stage) ==
    CASE stage = "validate" -> 1
      [] stage = "head" -> 2
      [] stage = "get" -> 3
      [] stage = "socks" -> 4

\* C9: the events of a call are in the order validation, HEAD retries,
\* single GET, SOCKS retries, no stage coming back after a later one; a
\* successful attempt is the last event of the call, which then returns.
C9_StagesInOrder ==
    call = "smart" =>
        /\ \A k \in 1..(Len(trace) - 1) :
               StageRank(trace[k].stage) <= StageRank(trace[k + 1].stage)
        /\ Cardinality(AttemptsOf("validate")) <= 1
        /\ Cardinality(AttemptsOf("get")) <= 1
        /\ \A k \in 1..Len(trace) :
               (trace[k].ok /\ trace[k].what \in {"HEAD", "GET"})
                   => (k = Len(trace) /\ smartPc = "returned"
                          /\ smartResult # None)

\* C9 witness: a call went through the four stages and returned the result
\* of its last SOCKS attempt.
C9_Witness ==
    /\ call = "smart" /\ smartPc = "returned" /\ smartResult # None
    /\ \A st \in {"validate", "head", "get", "socks"} : AttemptsOf(st) # {}
    /\ Cardinality(AttemptsOf("socks")) = socks_retries
    /\ socks_retries >= 2

\* C10: after a failed probe of the HTTP proxy no HEAD or GET goes through
\* it, and the call is in its SOCKS stage or has returned, with None when
\* no SOCKS proxy was given.
C10_FailedProbeGoesToSocks ==
    (call = "smart" /\ Len(trace) >= 1 /\ trace[1].what = "probe"
        /\ ~trace[1].ok)
    => /\ \A k \in 1..Len(trace) :
              trace[k].what \in {"HEAD", "GET"}
                  => trace[k].proxy # HttpProxyId
       /\ smartPc \in {"socks", "socks_sleep", "returned"}
       /\ socks_proxy = None =>
              (smartPc = "returned" /\ smartResult = None)

\* The stage of the attempt that gave the result of a staged call.
WinningStage == trace[Len(trace)].stage

\* C11: a result obtained in the SOCKS stage has the requested method as
\* initial_method, GET as final_method, the SOCKS proxy as used_proxy and
\* as retries the index of the winning attempt within the SOCKS stage.
C11_SocksResultFields ==
    (call = "smart" /\ smartPc = "returned" /\ smartResult # None
        /\ WinningStage = "socks")
    => /\ smartResult.initial_method = method
       /\ smartResult.final_method = "GET"
       /\ smartResult.used_proxy = SocksProxyId
       /\ smartResult.retries = Cardinality(AttemptsOf("socks")) - 1

\* C11 witness: method HEAD and http_retries 2, two HEADs and the GET
\* through the HTTP proxy failed, the first SOCKS GET succeeded.
C11_Witness ==
    /\ call = "smart" /\ smartPc = "returned" /\ smartResult # None
    /\ method = "HEAD" /\ http_retries = 2
    /\ Cardinality(AttemptsOf("head")) = 2
    /\ Cardinality(AttemptsOf("get")) = 1
    /\ Cardinality(AttemptsOf("socks")) = 1
    /\ smartResult.retries = 0
    /\ smartResult.initial_method = "HEAD"

\* C12 as stated: in a result final_method differs from initial_method
\* only when the staged fetcher was asked for HEAD and succeeded with GET.
C12_FinalDiffersOnlyForHead ==
    /\ (call = "brute" /\ result_container # None) =>
           result_container.final_method = result_container.initial_method
    /\ (call = "smart" /\ smartPc = "returned" /\ smartResult # None
           /\ smartResult.final_method # smartResult.initial_method)
       => (method = "HEAD" /\ smartResult.final_method = "GET")

\* C12 amended: a race result has both methods equal to the requested one;
\* a staged result has the requested method as initial_method and as
\* final_method HEAD when it was obtained in the HEAD stage and GET when it
\* was obtained by the HTTP GET or in the SOCKS stage, so the two differ
\* exactly when a method other than GET was requested and a GET succeeded.
C12_FinalIsMethodSent ==
    /\ (call = "brute" /\ result_container # None) =>
           /\ result_container.initial_method = http_method
           /\ result_container.final_method = http_method
    /\ (call = "smart" /\ smartPc = "returned" /\ smartResult # None) =>
           /\ smartResult.initial_method = method
           /\ smartResult.final_method =
                  IF WinningStage = "head" THEN "HEAD" ELSE "GET"
           /\ WinningStage = "head" => method = "HEAD"
           /\ (smartResult.final_method # smartResult.initial_method)
                  <=> (method # "GET" /\ WinningStage # "head")

\* C12 witness: a staged call asked for POST returned the result of a GET.
C12_Witness ==
    /\ call = "smart" /\ smartPc = "returned" /\ smartResult # None
    /\ method = "POST"
    /\ smartResult.initial_method = "POST"
    /\ smartResult.final_method = "GET"

\* C15: an exception of one entry's attempt (unsupported scheme, origin
\* mismatch, any other) ends no worker: a worker stops only on an empty
\* queue or a recorded winner, an entry that raised is never the winner,
\* and a race that returns None has attempted every entry.
C15_WorkerSurvivesExceptions ==
    call = "brute" =>
        /\ \A w \in DOMAIN task :
               /\ task[w] # "failed"
               /\ (task[w] = "done" /\ result_container = None)
                      => proxy_queue = <<>>
        /\ result_container # None =>
               AttemptOutcome(result_container.used_proxy.id).tag = "return"
        /\ (mainPc = "returned" /\ result_container = None) =>
               \A i \in Entries : attempted[i] = 1

\* C15 witness: one worker went through an entry with an unsupported scheme
\* and an entry whose attempt raised, and the race returned None.
C15_Witness ==
    /\ call = "brute" /\ mainPc = "returned" /\ concurrency_limit = 1
    /\ Len(proxies) = 2
    /\ proxies[1].scheme = SchemeFtp
    /\ proxies[2].scheme = SchemeHttp /\ proxies[2].net = NetCrash
    /\ attempted = <<1, 1>> /\ completed = {2}
    /\ result_container = None

\* C16: a staged call given neither proxy raises at once: no probe, no
\* attempt and no sleep has been made and nothing is returned.
C16_NoProxyRaisesFirst ==
    (call = "smart" /\ http_proxy_arg = None /\ socks_proxy = None
        /\ smartPc # "entry")
    => (smartPc = "raised" /\ trace = <<>> /\ smartResult = None)

\* C16 witness: a staged call given neither proxy has raised.
C16_Witness ==
    /\ call = "smart" /\ http_proxy_arg = None /\ socks_proxy = None
    /\ smartPc = "raised"

\* C17: a race given an empty list returns None with no worker created,
\* nothing enqueued and no attempt made.
C17_EmptyListReturnsNull ==
    (call = "brute" /\ proxies = <<>> /\ mainPc # "entry")
    => /\ mainPc = "returned"
       /\ result_container = None
       /\ task = <<>> /\ proxy_queue = <<>> /\ completed = {}

\* C17 witness: a race given an empty list has returned.
C17_Witness ==
    call = "brute" /\ proxies = <<>> /\ mainPc = "returned"

\* C20: every entry of the list is attempted at most once and held by at
\* most one worker; an entry still queued is queued once, has not been
\* attempted and is held by nobody.
C20_EntryConsumedOnce ==
    call = "brute" =>
        \A i \in Entries :
            /\ attempted[i] <= 1
            /\ Cardinality({w \in DOMAIN task : holding[w] = i}) <= 1
            /\ Cardinality({k \in 1..Len(proxy_queue) : proxy_queue[k] = i})
                   <= 1
            /\ (\E k \in 1..Len(proxy_queue) : proxy_queue[k] = i) =>
                   /\ attempted[i] = 0
                   /\ \A w \in DOMAIN task : holding[w] # i

\* C20 witness: two workers each completed the attempt of one of two
\* entries and the race returned.
C20_Witness ==
    /\ call = "brute" /\ mainPc = "returned"
    /\ Len(proxies) = 2 /\ concurrency_limit >= 2
    /\ attempted = <<1, 1>> /\ completed = {1, 2}
    /\ \A w \in {1, 2} : task[w] = "done"
    /\ proxy_queue = <<>>

\* C13: a transport failure of an attempt of submit (timeout, connection
\* error, certificate failure) is returned as a failure dict with the
\* target URL, the proxy and a null status, neither raised nor returned as
\* an empty value; a response with an error status is a Success with that
\* status.
C13_TransportFailureIsFailure ==
    (call = "submit" /\ exNet # "none") =>
        /\ exNet \in {NetTimeout, NetConnError, NetCertError} =>
               /\ exOut.tag = "return"
               /\ Truthy(exOut.value)
               /\ DictGet(exOut.value, "url") = Url(TargetHost)
               /\ DictGet(exOut.value, "proxy") = Proxy(exProxy)
               /\ DictGet(exOut.value, "status") = None
        /\ exNet = NetHttpError =>
               /\ IsSuccess(exOut)
               /\ DictGet(exOut.value, "status") = IntV(500)

\* C14: every request submit sends goes to the proxy it was given, never
\* to the target itself.
C14_RequestGoesThroughProxy ==
    (call = "submit" /\ exPc \in {"requesting", "returned", "raised"}
        /\ exType # "none")
    => exRoute = Via(exProxy)

\* C18: an address with scheme http or https is of the HTTP family, one
\* whose scheme begins with socks is of the SOCKS family, and any other,
\* a missing scheme too, makes submit raise an error that names the scheme
\* and the whole address; no request is sent before the classification.
C18_SchemeFamilies ==
    (call = "submit" /\ exPc # "entry") =>
        /\ exProxy \in {Address(SchemeHttp), Address(SchemeHttps),
                        PaddedUpperHttp} => exType = "HTTP"
        /\ exProxy \in {Address(SchemeSocks4), Address(SchemeSocks5),
                        Address(SchemeSocks5h)} => exType = "SOCKS"
        /\ exProxy \in {Address(SchemeFtp), NoSchemeAddress} =>
               /\ exPc = "raised"
               /\ exOut.exc = "ValueError"
               /\ exOut.scheme =
                      (IF exProxy = NoSchemeAddress THEN <<>> ELSE SchemeFtp)
               /\ exOut.proxy = exProxy
               /\ exRoute = None /\ exNet = "none"
        /\ (exRoute # None \/ exNet # "none") =>
               exType \in {"HTTP", "SOCKS"}

\* C18 witness: submit raised on an address that has no scheme.
C18_Witness ==
    /\ call = "submit" /\ exPc = "raised"
    /\ exProxy = NoSchemeAddress
    /\ exOut.exc = "ValueError" /\ exOut.scheme = <<>>

\* C19: the backoff never exceeds the cap; without jitter it is
\* min(base * 2^n, cap), so it is the cap once base * 2^n reaches it, and
\* it is not below the backoff of any smaller n.
C19_BackoffCapped ==
    (call = "backoff" /\ boPc = "returned") =>
        /\ boDelay <= DefaultMaxDelay
        /\ ~boJitter =>
               /\ boDelay = (IF DefaultBaseDelay * (2 ^ boAttempt)
                                    <= DefaultMaxDelay
                             THEN DefaultBaseDelay * (2 ^ boAttempt)
                             ELSE DefaultMaxDelay)
               /\ DefaultBaseDelay * (2 ^ boAttempt) >= DefaultMaxDelay
                      => boDelay = DefaultMaxDelay
               /\ \A m \in 0..boAttempt :
                      get_exponential_backoff(m, DefaultBaseDelay, FALSE,
                          DefaultMaxDelay, boRandom) <= boDelay

\* C19 witness: a backoff without jitter whose base * 2^n is above the cap
\* returned the cap.
C19_Witness ==
    /\ call = "backoff" /\ boPc = "returned" /\ ~boJitter
    /\ DefaultBaseDelay * (2 ^ boAttempt) > DefaultMaxDelay
    /\ boDelay = DefaultMaxDelay

\* C21: a worker takes an entry off the queue and begins an attempt only
\* while the winner slot is unset: in every step that begins an attempt or
\* shortens the queue the slot is unset before and after the step.
C21_NoAttemptAfterWinner ==
    [][((\E i \in DOMAIN attempted : attempted'[i] > attempted[i])
          \/ Len(proxy_queue') < Len(proxy_queue))
       => (result_container = None /\ result_container' = None)]_vars

\* C21 witness: a race returned its winner and left an entry on the queue
\* that nobody attempted.
C21_Witness ==
    /\ call = "brute" /\ mainPc = "returned"
    /\ result_container # None
    /\ proxy_queue # <<>>
    /\ \E i \in Entries : attempted[i] = 0
    /\ \A w \in DOMAIN task : task[w] = "done"

\* No worker is in a get() on the empty queue.
NoWorkerWaitsOnQueue == \A w \in DOMAIN task : task[w] # "waiting"

\* C22: when every attempt ends, a race given a list that is not empty
\* returns: no worker is ever in a get() on the empty queue, and the wait
\* for the workers, cancelled or not, ends.
C22_FetchReturns ==
    /\ []NoWorkerWaitsOnQueue
    /\ (call = "brute" /\ mainPc = "entry" /\ proxies # <<>>)
           ~> (mainPc = "returned")

\* C22 witness: a race of more workers than entries returned after it
\* cancelled a worker that was inside an attempt.
C22_Witness ==
    /\ call = "brute" /\ mainPc = "returned"
    /\ concurrency_limit > Len(proxies) /\ Len(proxies) = 2
    /\ \E w \in DOMAIN task : task[w] = "cancelled"
    /\ \E w \in DOMAIN task : task[w] = "done" /\ attempted = <<1, 1>>

\* The sleeps of a stage that the call has made.
SleepsOf(stage) ==
    {k \in 1..Len(trace) : trace[k].stage = stage /\ trace[k].what = "sleep"}

\* The probe of the HTTP proxy was made and found it reachable.
ProbePassed ==
    \E k \in 1..Len(trace) : trace[k].stage = "validate" /\ trace[k].ok

\* No attempt made so far gave a result.
EveryAttemptFailed ==
    \A k \in AttemptsOf("head") \cup AttemptsOf("get") \cup AttemptsOf("socks") :
        ~trace[k].ok

C24_SleepsOnlyBetweenAttempts ==
    call = "smart" =>
        \A k \in 1..Len(trace) :
            trace[k].what = "sleep" =>
                /\ k > 1
                /\ trace[k - 1].stage = trace[k].stage
                /\ trace[k - 1].what # "sleep"
                /\ ~trace[k - 1].ok
                /\ IF k < Len(trace)
                   THEN /\ trace[k + 1].stage = trace[k].stage
                        /\ trace[k + 1].what # "sleep"
                   ELSE smartPc = trace[k].stage

====
